---- MODULE Spec2Model ----
(***************************************************************************)
(* Model of the job orchestration of gemini-clean-jb:                      *)
(*   - the retry wrapper generateWithRetry / generateImageWithRetry,       *)
(*   - the reducer-based App (handleProcessJob, handleGenerateMore,        *)
(*     handleProcessAllJobs),                                              *)
(*   - the video App (createApiHandler, the video poll effect, clear-all,  *)
(*     remove-job and stop-generation),                                    *)
(*   - the three versions of generateThematicImages behind /api/thematic,  *)
(*   - the request gate of the /api/enhance handler.                       *)
(* Each part has its own specification (SpecRetry, SpecBatch, SpecVideo,   *)
(* SpecThematic, SpecGate); a specification leaves the variables of the    *)
(* other parts unchanged.                                                  *)
(***************************************************************************)
EXTENDS Integers, Sequences, FiniteSets, TLC

VARIABLES
    \* ---- retry wrapper (src/unnamed/part_000, src/unnamed/part_002) ----
    variant,       \* "throw": part_000:69 / part_002:71, "null": part_002:367
    maxRetries,    \* the maxRetries argument
    attempt,       \* let attempt
    currentDelay,  \* let currentDelay
    rpc,           \* position of the async function
    calls,         \* number of ai.models.generateContent calls issued
    waits,         \* the delays awaited so far, in order
    outcomes,      \* what the provider answered to each call, in order
    result,        \* the value returned or the error thrown
    \* ---- reducer App (src/App.tsx:1-439) ----
    state,          \* useReducer state: jobs, backgroundPrompt, isBatchProcessing
    cancelBatchRef, \* cancelBatchRef.current
    inflight,       \* the enhanceJewelryImage calls awaited by a handler
    batches,        \* the invocations of handleProcessAllJobs, and whether
                    \* the user stopped them
    nUploads,       \* uploads so far (source of the fresh job ids)
    nCalls,         \* enhanceJewelryImage calls issued so far
    \* ---- video App (src/unnamed/part_008, src/App.tsx:441-877) ----
    jobs,             \* useState jobs
    intervals,        \* videoCheckIntervalsRef.current: job id -> interval id
    timers,           \* the intervals that run, each with the job it closed over
    nTimers,          \* setInterval calls so far (source of the interval ids)
    abortControllers, \* abortControllersRef.current: job id -> controller
    fetches,          \* the fetches createApiHandler awaits
    polls,            \* the /api/video-status calls checkVideoStatus awaits
    ops,              \* the provider's video operations, the calls made on them,
                      \* and whether the job has let go of them
    mounted,          \* the component is mounted
    nFetches,         \* fetches createApiHandler issued so far
    nVideoUploads,    \* uploads so far (source of the fresh job ids)
    disturbed,        \* operations whose job the user or a failed call touched
    cancelled,        \* operations that were polled when the user cancelled
    \* ---- generateThematicImages (src/unnamed/part_000, part_001, part_002,
    \*      src/services/geminiService.ts) and /api/thematic (part_005) ----
    tVariant,   \* "sequential": part_000:139 / part_002:140,
                \* "parallel": geminiService.ts:100, "tolerant": part_001:103
    theme,      \* the theme of the request body / the userTheme argument
    tpc,        \* position of the async function
    tIndex,     \* index of the prompt the for loop is at
    tAttempt,   \* let attempt of the retry wrapper the loop awaits
    tDelay,     \* let currentDelay of the retry wrapper the loop awaits
    tLog,       \* the requests sent, their answers and the delays awaited,
                \* in order
    tInflight,  \* the generateContent calls that have not answered yet
    tAnswers,   \* the last answer of the provider for each prompt
    tResults,   \* const results / generatedImages / enhancedImages
    tOutcome,   \* what generateThematicImages returned or threw
    tResponse,  \* the HTTP response of /api/thematic
    \* ---- /api/enhance (src/api/enhance.ts, src/unnamed/part_006) ----
    gVariant,   \* "first": enhance.ts:4-59, "security": enhance.ts:228-301,
                \* "part006": part_006:9-89
    gRequest,   \* the request and the environment of the function
    gpc,        \* position of the handler
    gCalls,     \* the service functions the handler has called, in order
    gResponses, \* the status codes the handler has answered with, in order
    gResult     \* what checkVideoOperation got from the provider and returned

retryVars == <<variant, maxRetries, attempt, currentDelay, rpc, calls, waits,
               outcomes, result>>

batchVars == <<state, cancelBatchRef, inflight, batches, nUploads, nCalls>>

videoVars == <<jobs, intervals, timers, nTimers, abortControllers, fetches,
               polls, ops, mounted, nFetches, nVideoUploads, disturbed,
               cancelled>>

thematicVars == <<tVariant, theme, tpc, tIndex, tAttempt, tDelay, tLog,
                  tInflight, tAnswers, tResults, tOutcome, tResponse>>

gateVars == <<gVariant, gRequest, gpc, gCalls, gResponses, gResult>>

vars == <<retryVars, batchVars, videoVars, thematicVars, gateVars>>

\* ------------------------------------------------------------------------
\* Bounds of the model
\* ------------------------------------------------------------------------
MaxRetriesArg == 4
MaxUploads == 2   \* uploads in one session
MaxFiles == 2     \* files of one upload
MaxCalls == 4     \* enhanceJewelryImage calls in one session
MaxBatches == 2   \* clicks on "Realzar Todas" in one session
MaxVideoUploads == 1     \* uploads in one session of the video App
MaxVideoFiles == 2       \* files of one upload of the video App
MaxFetches == 3          \* fetches createApiHandler issues in one session
MaxProcessingTicks == 1  \* 'processing' answers before an operation is done
MaxPollCalls == 3        \* status calls made in one session

\* ------------------------------------------------------------------------
\* Strings as sequences of characters, so that toLowerCase and includes
\* are computed and not assumed.
\* ------------------------------------------------------------------------
UpperChars == <<"A","B","C","D","E","F","G","H","I","J","K","L","M",
                "N","O","P","Q","R","S","T","U","V","W","X","Y","Z">>
LowerChars == <<"a","b","c","d","e","f","g","h","i","j","k","l","m",
                "n","o","p","q","r","s","t","u","v","w","x","y","z">>

toLowerChar(c) ==
    IF \E i \in 1..Len(UpperChars) : UpperChars[i] = c
    THEN LowerChars[CHOOSE i \in 1..Len(UpperChars) : UpperChars[i] = c]
    ELSE c

toLowerCase(s) == [i \in 1..Len(s) |-> toLowerChar(s[i])]

includes(s, sub) ==
    \E i \in 0..(Len(s) - Len(sub)) : SubSeq(s, i + 1, i + Len(sub)) = sub

Str429 == <<"4","2","9">>
StrResourceExhausted ==
    <<"r","e","s","o","u","r","c","e","_","e","x","h","a","u","s","t","e","d">>
StrQuota == <<"q","u","o","t","a">>

\* "La respuesta de la API no contenía datos de imagen."
NoImageMessage ==
    <<"L","a"," ","r","e","s","p","u","e","s","t","a"," ","d","e"," ","l","a",
      " ","A","P","I"," ","n","o"," ","c","o","n","t","e","n","í","a"," ",
      "d","a","t","o","s"," ","d","e"," ","i","m","a","g","e","n",".">>

\* "Límite de peticiones excedido. ..." (abridged after the first sentence)
LimitMessage ==
    <<"L","í","m","i","t","e"," ","d","e"," ","p","e","t","i","c","i","o",
      "n","e","s"," ","e","x","c","e","d","i","d","o",".">>

\* Messages the provider's errors carry.  NoMessage is an error whose
\* message is undefined (error.message?.toLowerCase() || '').
NoMessage == <<>>
ProviderMessages ==
    { <<"4","2","9"," ","T","o","o"," ","M","a","n","y">>,
      <<"R","E","S","O","U","R","C","E","_","E","X","H","A","U","S","T","E","D">>,
      <<"Q","u","o","t","a"," ","e","x","c","e","e","d","e","d">>,
      <<"s","a","f","e","t","y">>,
      <<"5","0","0"," ","q","u","o","t","e">>,
      NoMessage }

\* What one call of ai.models.generateContent can produce.
ProviderOutcomes ==
    { [kind |-> "image",   msg |-> NoMessage],
      [kind |-> "noimage", msg |-> NoMessage] }
    \cup { [kind |-> "error", msg |-> m] : m \in ProviderMessages }

\* generateThematicImages and /api/thematic before a request arrives
NoBody ==
    [present |-> FALSE, mode |-> "undefined", base64Image |-> FALSE,
     mimeType |-> FALSE, userTheme |-> "absent", prompt |-> FALSE,
     operation |-> FALSE]

\* checkVideoOperation was not called
NoResult ==
    [operation |-> [done |-> FALSE, uri |-> FALSE, error |-> FALSE,
                    handle |-> [op |-> 0, gen |-> 0]],
     result |-> [status |-> "none", videoUrl |-> "null",
                 operation |-> [op |-> 0, gen |-> 0]]]

GateIdle ==
    /\ gVariant = "first"
    /\ gRequest = [method |-> "GET", serverKey |-> FALSE, apiKey |-> FALSE,
                   authorization |-> <<>>, body |-> NoBody]
    /\ gpc = "idle"
    /\ gCalls = <<>>
    /\ gResponses = <<>>
    /\ gResult = NoResult

ThematicIdle ==
    /\ tVariant = "sequential"
    /\ theme = <<>>
    /\ tpc = "idle"
    /\ tIndex = 0
    /\ tAttempt = 0
    /\ tDelay = 0
    /\ tLog = <<>>
    /\ tInflight = {}
    /\ tAnswers = <<"none", "none", "none">>
    /\ tResults = <<>>
    /\ tOutcome = [kind |-> "none", images |-> <<>>]
    /\ tResponse = [status |-> 0, images |-> <<>>]

\* ------------------------------------------------------------------------
\* generateWithRetry
\* ------------------------------------------------------------------------
InitialDelay == 5000

\* The parts that a specification does not exercise stay as constructed.
Null == "null"

initialState ==
    [jobs |-> <<>>, backgroundPrompt |-> <<>>, isBatchProcessing |-> FALSE]

BatchIdle ==
    /\ state = initialState
    /\ cancelBatchRef = FALSE
    /\ inflight = {}
    /\ batches = <<>>
    /\ nUploads = 0
    /\ nCalls = 0

RetryIdle ==
    /\ variant = "throw"
    /\ maxRetries = 3
    /\ attempt = 0
    /\ currentDelay = 0
    /\ rpc = "start"
    /\ calls = 0
    /\ waits = <<>>
    /\ outcomes = <<>>
    /\ result = [kind |-> "none", msg |-> <<>>]

\* new Map()
EmptyMap == [k \in {} |-> 0]

\* The video App after its first render
VideoIdle ==
    /\ jobs = <<>>
    /\ intervals = EmptyMap
    /\ timers = {}
    /\ nTimers = 0
    /\ abortControllers = EmptyMap
    /\ fetches = {}
    /\ polls = {}
    /\ ops = EmptyMap
    /\ mounted = TRUE
    /\ nFetches = 0
    /\ nVideoUploads = 0
    /\ disturbed = {}
    /\ cancelled = {}

isRateLimitError(message) ==
    LET errorMessage == toLowerCase(message)
    IN  \/ includes(errorMessage, Str429)
        \/ includes(errorMessage, StrResourceExhausted)
        \/ includes(errorMessage, StrQuota)

\* Mutants of ShouldRetry: the retry test off by one, and a retry on any
\* error.
ShouldRetry_OffByOne(message, att, maxR) ==
    isRateLimitError(message) /\ att < maxR

ShouldRetry_AnyError(message, att, maxR) ==
    att < maxR - 1

ShouldRetry(message, att, maxR) ==
    isRateLimitError(message) /\ att < maxR - 1

\* Mutant of NextDelay: a linear backoff.
NextDelay_Linear(d) == d + 5000

NextDelay(d) == d * 2

\* Mutant of AfterResponse (defined below): the payload is returned
\* without looking for inlineData.
\*
\* The body of the try block after the call returned without throwing:
\* "return" with the image, "null" (part_002:397) or "throw" into the catch
\* block of the same function (part_000:92).
AfterResponse_NoCheck(kind, v) ==
    "return"

AfterResponse(kind, v) ==
    IF kind = "image" THEN "return"
    ELSE IF v = "null" THEN "null" ELSE "throw"

\* while (attempt < maxRetries) { try { await generateContent(...)
WhileLoop(att) ==
    IF att < maxRetries
    THEN /\ rpc' = "calling"
         /\ calls' = calls + 1
         /\ result' = result
    ELSE /\ rpc' = "failed"
         /\ calls' = calls
         /\ result' = [kind |-> "error", msg |-> LimitMessage]

GenerateWithRetry ==
    /\ rpc = "start"
    /\ attempt' = 0
    /\ currentDelay' = InitialDelay
    /\ WhileLoop(0)
    /\ UNCHANGED <<variant, maxRetries, waits, outcomes>>
    /\ UNCHANGED <<batchVars, videoVars, thematicVars, gateVars>>

\* Mutant of Catch: giving up throws the generic error of the end of the
\* function instead of the error caught.
Catch_Generic(message) ==
    IF ShouldRetry(message, attempt, maxRetries)
    THEN /\ rpc' = "waiting"
         /\ waits' = Append(waits, currentDelay)
         /\ result' = result
    ELSE /\ rpc' = "failed"
         /\ waits' = waits
         /\ result' = [kind |-> "error", msg |-> LimitMessage]

\* catch (error) { ... }
Catch(message) ==
    IF ShouldRetry(message, attempt, maxRetries)
    THEN /\ rpc' = "waiting"
         /\ waits' = Append(waits, currentDelay)
         /\ result' = result
    ELSE /\ rpc' = "failed"
         /\ waits' = waits
         /\ result' = [kind |-> "error", msg |-> message]

ProviderAnswers ==
    /\ rpc = "calling"
    /\ \E o \in ProviderOutcomes :
        /\ outcomes' = Append(outcomes, o)
        /\ IF o.kind = "error"
           THEN Catch(o.msg)
           ELSE LET a == AfterResponse(o.kind, variant)
                IN  IF a = "throw"
                    THEN Catch(NoImageMessage)
                    ELSE /\ rpc' = "returned"
                         /\ waits' = waits
                         /\ result' = [kind |-> IF a = "return" THEN "image"
                                                ELSE "null",
                                       msg |-> NoMessage]
    /\ UNCHANGED <<variant, maxRetries, attempt, currentDelay, calls>>
    /\ UNCHANGED <<batchVars, videoVars, thematicVars, gateVars>>

\* await delay(currentDelay); currentDelay *= 2; attempt++; then the loop test
DelayElapses ==
    /\ rpc = "waiting"
    /\ currentDelay' = NextDelay(currentDelay)
    /\ attempt' = attempt + 1
    /\ WhileLoop(attempt + 1)
    /\ UNCHANGED <<variant, maxRetries, waits, outcomes>>
    /\ UNCHANGED <<batchVars, videoVars, thematicVars, gateVars>>

InitRetry ==
    /\ BatchIdle
    /\ VideoIdle
    /\ ThematicIdle
    /\ GateIdle
    /\ variant \in {"throw", "null"}
    /\ maxRetries \in 0..MaxRetriesArg
    /\ attempt = 0
    /\ currentDelay = 0
    /\ rpc = "start"
    /\ calls = 0
    /\ waits = <<>>
    /\ outcomes = <<>>
    /\ result = [kind |-> "none", msg |-> NoMessage]

NextRetry ==
    \/ GenerateWithRetry
    \/ ProviderAnswers
    \/ DelayElapses

SpecRetry == InitRetry /\ [][NextRetry]_vars

\* ------------------------------------------------------------------------
\* The reducer App (src/App.tsx:1-439)
\* ------------------------------------------------------------------------
\* String.prototype.trim on a sequence of characters.
RECURSIVE trimStart(_)
trimStart(s) ==
    IF s # <<>> /\ Head(s) = " " THEN trimStart(Tail(s)) ELSE s

RECURSIVE trimEnd(_)
trimEnd(s) ==
    IF s # <<>> /\ s[Len(s)] = " " THEN trimEnd(SubSeq(s, 1, Len(s) - 1)) ELSE s

trim(s) == trimEnd(trimStart(s))

\* The texts typed into the background prompt.
Prompts == { <<>>, <<" ">>, <<"s","e","d","a">> }

\* The messages enhanceJewelryImage throws (part_002:466-481).
ServiceErrors == { "unexpected error" }

\* The ids crypto.randomUUID() gives the files of upload number u.
NewIds(u, k) == [i \in 1..k |-> (u - 1) * MaxFiles + i]

\* { ...job, ...updates }
Merge(job, updates) ==
    [f \in DOMAIN job |-> IF f \in DOMAIN updates THEN updates[f] ELSE job[f]]

\* Mutant of mapJobs: the update is applied to every job of the list.
mapJobs_EveryJob(js, jobId, updates) ==
    [i \in 1..Len(js) |-> Merge(js[i], updates)]

\* Mutant of mapJobs: a job the list does not hold is added to it.
mapJobs_Upsert(js, jobId, updates) ==
    IF \E i \in 1..Len(js) : js[i].id = jobId
    THEN [i \in 1..Len(js) |->
            IF js[i].id = jobId THEN Merge(js[i], updates) ELSE js[i]]
    ELSE Append(js, [id |-> jobId] @@ updates)

\* state.jobs.map(job => job.id === jobId ? { ...job, ...updates } : job)
mapJobs(js, jobId, updates) ==
    [i \in 1..Len(js) |->
        IF js[i].id = jobId THEN Merge(js[i], updates) ELSE js[i]]

hasJob(js, jobId) == \E i \in 1..Len(js) : js[i].id = jobId

\* js.find(j => j.id === jobId), for a job the list holds
findJob(js, jobId) == js[CHOOSE i \in 1..Len(js) : js[i].id = jobId]

\* Mutant of pendingJobsOf: the pending jobs from the last to the first.
pendingJobsOf_Reversed(js) ==
    LET p == SelectSeq(js, LAMBDA j : j.status = "pending")
    IN  [i \in 1..Len(p) |-> p[Len(p) + 1 - i]]

\* state.jobs.filter(j => j.status === 'pending')
pendingJobsOf(js) == SelectSeq(js, LAMBDA j : j.status = "pending")

appReducer(st, action) ==
    CASE action.type = "UPLOAD_BATCH" ->
            [initialState EXCEPT
                !.backgroundPrompt = st.backgroundPrompt,
                !.jobs = [i \in 1..Len(action.payload) |->
                            [id |-> action.payload[i],
                             status |-> "pending",
                             processedImages |-> <<>>,
                             error |-> Null]]]
      [] action.type = "SET_BACKGROUND_PROMPT" ->
            [st EXCEPT !.backgroundPrompt = action.payload]
      [] action.type = "PROCESS_JOB_START" ->
            [st EXCEPT !.jobs = mapJobs(st.jobs, action.jobId,
                [status |-> "processing", error |-> Null])]
      [] action.type = "PROCESS_JOB_MORE_START" ->
            [st EXCEPT !.jobs = mapJobs(st.jobs, action.jobId,
                [status |-> "processing_more", error |-> Null])]
      [] action.type = "PROCESS_JOB_SUCCESS" ->
            [st EXCEPT !.jobs = mapJobs(st.jobs, action.jobId,
                [status |-> "success",
                 processedImages |-> action.processedImages])]
      [] action.type = "PROCESS_JOB_ERROR" ->
            [st EXCEPT !.jobs = mapJobs(st.jobs, action.jobId,
                [status |-> "error", error |-> action.error])]
      [] action.type = "START_BATCH_PROCESS" ->
            [st EXCEPT !.isBatchProcessing = TRUE]
      [] action.type = "END_BATCH_PROCESS" ->
            [st EXCEPT !.isBatchProcessing = FALSE]
      [] action.type = "RESET" -> initialState
      [] OTHER -> st

\* const isLoading = useMemo(...)
isLoading(js) ==
    \E i \in 1..Len(js) : js[i].status \in {"processing", "processing_more"}

pendingJobsCount(js) ==
    Cardinality({i \in 1..Len(js) : js[i].status = "pending"})

\* disabled={isLoading || !backgroundPrompt.trim()} of the JobCard buttons
JobCardDisabled(st) ==
    isLoading(st.jobs) \/ trim(st.backgroundPrompt) = <<>>

\* The guard of handleProcessJob, on the job list and the prompt its
\* closure holds.
ProcessJobReturnsEarly(js, prompt, jobId) ==
    \/ ~hasJob(js, jobId)
    \/ trim(prompt) = <<>>
    \/ findJob(js, jobId).status = "processing"
    \/ findJob(js, jobId).status = "processing_more"

\* Mutant of Images: the images of a call in the reverse order of the styles.
Images_Reversed(call, styles) ==
    [i \in 1..Len(styles) |->
        [style |-> styles[Len(styles) + 1 - i], call |-> call]]

\* The images of one enhanceJewelryImage call, as data URLs, for the
\* styles asked for.
Images(call, styles) ==
    [i \in 1..Len(styles) |-> [style |-> styles[i], call |-> call]]

\* handleProcessJob up to its await: PROCESS_JOB_START and the call.
\* by = 0 for a click, the number of the batch for the batch loop.
handleProcessJob(js, prompt, jobId, by, st) ==
    IF ProcessJobReturnsEarly(js, prompt, jobId)
    THEN /\ state' = st
         /\ inflight' = inflight
         /\ nCalls' = nCalls
    ELSE /\ state' = appReducer(st, [type |-> "PROCESS_JOB_START",
                                     jobId |-> jobId])
         /\ inflight' = inflight \cup
                {[n |-> nCalls + 1, jobId |-> jobId, kind |-> "process",
                  prev |-> <<>>, by |-> by]}
         /\ nCalls' = nCalls + 1

\* ---- user actions ----
HandleImageUpload ==
    /\ UNCHANGED <<retryVars, videoVars, thematicVars, gateVars>>
    /\ Len(state.jobs) = 0          \* the uploader is rendered
    /\ nUploads < MaxUploads
    /\ \E k \in 1..MaxFiles :
        state' = appReducer(state, [type |-> "UPLOAD_BATCH",
                                    payload |-> NewIds(nUploads + 1, k)])
    /\ nUploads' = nUploads + 1
    /\ UNCHANGED <<cancelBatchRef, inflight, batches, nCalls>>

HandleReset ==
    /\ UNCHANGED <<retryVars, videoVars, thematicVars, gateVars>>
    /\ Len(state.jobs) > 0
    /\ state' = appReducer(state, [type |-> "RESET"])
    /\ UNCHANGED <<cancelBatchRef, inflight, batches, nUploads, nCalls>>

HandleSetPrompt ==
    /\ UNCHANGED <<retryVars, videoVars, thematicVars, gateVars>>
    /\ Len(state.jobs) > 0
    /\ ~isLoading(state.jobs)       \* the input is disabled while loading
    /\ \E p \in Prompts :
        /\ p # state.backgroundPrompt
        /\ state' = appReducer(state, [type |-> "SET_BACKGROUND_PROMPT",
                                       payload |-> p])
    /\ UNCHANGED <<cancelBatchRef, inflight, batches, nUploads, nCalls>>

\* "Realzar" (pending job) or "Reintentar" (job in error)
ClickProcessJob ==
    /\ UNCHANGED <<retryVars, videoVars, thematicVars, gateVars>>
    /\ nCalls < MaxCalls
    /\ ~JobCardDisabled(state)
    /\ \E i \in 1..Len(state.jobs) :
        /\ state.jobs[i].status \in {"pending", "error"}
        /\ handleProcessJob(state.jobs, state.backgroundPrompt,
                            state.jobs[i].id, 0, state)
    /\ UNCHANGED <<cancelBatchRef, batches, nUploads>>

\* "Generar más opciones": handleGenerateMore up to its await
ClickGenerateMore ==
    /\ UNCHANGED <<retryVars, videoVars, thematicVars, gateVars>>
    /\ nCalls < MaxCalls
    /\ ~JobCardDisabled(state)
    /\ \E i \in 1..Len(state.jobs) :
        LET job == state.jobs[i] IN
        /\ job.status = "success"
        /\ Len(job.processedImages) > 0
        /\ Len(job.processedImages) < 3
        /\ ~(\/ isLoading(state.jobs)
             \/ trim(state.backgroundPrompt) = <<>>
             \/ Len(job.processedImages) = 0)
        /\ state' = appReducer(state, [type |-> "PROCESS_JOB_MORE_START",
                                       jobId |-> job.id])
        /\ inflight' = inflight \cup
                {[n |-> nCalls + 1, jobId |-> job.id, kind |-> "more",
                  prev |-> job.processedImages, by |-> 0]}
        /\ nCalls' = nCalls + 1
    /\ UNCHANGED <<cancelBatchRef, batches, nUploads>>

\* "Realzar Todas": handleProcessAllJobs up to its first await
HandleProcessAllJobs ==
    /\ UNCHANGED <<retryVars, videoVars, thematicVars, gateVars>>
    /\ nCalls < MaxCalls
    /\ Len(batches) < MaxBatches
    \* disabled={isLoading || !prompt.trim() || pendingJobsCount === 0 || isBatchProcessing}
    /\ ~isLoading(state.jobs)
    /\ trim(state.backgroundPrompt) # <<>>
    /\ pendingJobsCount(state.jobs) > 0
    /\ ~state.isBatchProcessing
    /\ cancelBatchRef' = FALSE
    /\ LET pendingJobs == pendingJobsOf(state.jobs)
           started == appReducer(state, [type |-> "START_BATCH_PROCESS"])
           b == Len(batches) + 1
       IN  /\ handleProcessJob(state.jobs, state.backgroundPrompt,
                               pendingJobs[1].id, b, started)
           /\ batches' = Append(batches,
                    [pc |-> "job", jobs |-> state.jobs,
                     prompt |-> state.backgroundPrompt,
                     rest |-> Tail(pendingJobs), stopped |-> FALSE])
    /\ UNCHANGED nUploads

\* "Detener"
HandleCancelBatch ==
    /\ UNCHANGED <<retryVars, videoVars, thematicVars, gateVars>>
    /\ state.isBatchProcessing      \* the button is rendered
    /\ ~cancelBatchRef
    /\ cancelBatchRef' = TRUE
    /\ batches' = [b \in 1..Len(batches) |->
                      IF batches[b].pc # "done"
                      THEN [batches[b] EXCEPT !.stopped = TRUE]
                      ELSE batches[b]]
    /\ UNCHANGED <<state, inflight, nUploads, nCalls>>

\* ---- completions ----
\* An enhanceJewelryImage call returns or throws; the handler that awaits
\* it dispatches the result.  The batch loop that awaited handleProcessJob
\* goes on to its 5000 ms wait.
CallCompletes ==
    /\ UNCHANGED <<retryVars, videoVars, thematicVars, gateVars>>
    /\ \E c \in inflight :
        /\ inflight' = inflight \ {c}
        /\ \/ LET new == Images(c.n, IF c.kind = "process" THEN <<0>> ELSE <<1, 2>>)
              IN  state' = appReducer(state,
                        [type |-> "PROCESS_JOB_SUCCESS", jobId |-> c.jobId,
                         processedImages |-> c.prev \o new])
           \/ \E e \in ServiceErrors :
                state' = appReducer(state,
                        [type |-> "PROCESS_JOB_ERROR", jobId |-> c.jobId,
                         error |-> e])
        /\ batches' = IF c.by = 0 THEN batches
                      ELSE [batches EXCEPT ![c.by].pc = "gap"]
        /\ UNCHANGED <<cancelBatchRef, nUploads, nCalls>>

\* The 5000 ms wait of the batch loop is over: the next iteration, or the
\* end of the loop and END_BATCH_PROCESS.
GapElapses ==
    /\ UNCHANGED <<retryVars, videoVars, thematicVars, gateVars>>
    /\ \E b \in 1..Len(batches) :
        /\ batches[b].pc = "gap"
        /\ IF batches[b].rest = <<>> \/ cancelBatchRef
           THEN /\ state' = appReducer(state, [type |-> "END_BATCH_PROCESS"])
                /\ batches' = [batches EXCEPT ![b].pc = "done"]
                /\ UNCHANGED <<inflight, nCalls>>
           ELSE /\ handleProcessJob(batches[b].jobs, batches[b].prompt,
                                    batches[b].rest[1].id, b, state)
                /\ batches' = [batches EXCEPT ![b].pc = "job",
                                              ![b].rest = Tail(@)]
        /\ UNCHANGED <<cancelBatchRef, nUploads>>

InitBatch ==
    /\ RetryIdle
    /\ BatchIdle
    /\ VideoIdle
    /\ ThematicIdle
    /\ GateIdle

NextBatch ==
    \/ HandleImageUpload
    \/ HandleReset
    \/ HandleSetPrompt
    \/ ClickProcessJob
    \/ ClickGenerateMore
    \/ HandleProcessAllJobs
    \/ HandleCancelBatch
    \/ CallCompletes
    \/ GapElapses

SpecBatch == InitBatch /\ [][NextBatch]_vars

\* The same App when every enhanceJewelryImage call settles and every
\* 5000 ms timeout of the loop fires.
SpecBatchLive ==
    InitBatch /\ [][NextBatch]_vars
    /\ WF_vars(CallCompletes) /\ WF_vars(GapElapses)

\* ------------------------------------------------------------------------
\* The video App (src/unnamed/part_008, the same component as
\* src/App.tsx:441-877 with handleRemoveJob added).
\* ------------------------------------------------------------------------
LoadingTypes == {"catalog", "thematic", "video"}

\* videoResult: null (part_008:123)
NoHandle == [op |-> 0, gen |-> 0]
NoVideo == [status |-> "none", videoUrl |-> Null, operation |-> NoHandle]
NotLoading == [catalog |-> FALSE, thematic |-> FALSE, video |-> FALSE]

newJob(id) ==
    [id |-> id, catalogImage |-> Null, thematicImages |-> <<>>,
     videoResult |-> NoVideo, loading |-> NotLoading, error |-> Null]

\* What the provider makes of an operation: after m 'processing' answers it
\* is done, with a video uri, with an error, or with neither. m and final are
\* fixed when the first status call reaches the provider.
Finals == {"uri", "error", "neither"}

\* The result of /api/thematic: result.images
ThematicResults == {<<"image", "image", "image">>}

\* `${file.name}-${Date.now()}` for file i of upload number u (from 0)
VideoJobId(u, i) == (u * MaxVideoFiles) + i

isAnyJobProcessing(js) ==
    \E i \in 1..Len(js) :
        js[i].loading.catalog \/ js[i].loading.thematic \/ js[i].loading.video

\* Mutant of updateJob: the update is merged into every job.
updateJob_EveryJob(js, id, updates) ==
    [i \in 1..Len(js) |-> Merge(js[i], updates)]

\* setJobs(prev => prev.map(j => j.id === id ? { ...j, ...updates } : j))
updateJob(js, id, updates) ==
    [i \in 1..Len(js) |-> IF js[i].id = id THEN Merge(js[i], updates) ELSE js[i]]

Without(f, ks) == [k \in (DOMAIN f) \ ks |-> f[k]]

\* useEffect: the condition under which a timer is registered
ShouldStartTimer_AnyResult(job, ivs) ==
    job.videoResult.status # "none" /\ job.id \notin DOMAIN ivs

ShouldStartTimer(job, ivs) ==
    job.videoResult.status = "processing" /\ job.id \notin DOMAIN ivs

ShouldStopTimer(job, ivs) ==
    job.videoResult.status # "processing" /\ job.id \in DOMAIN ivs

\* One iteration of jobs.forEach in the effect; s holds the interval map, the
\* timers that run (each with the job its callback closes over) and the
\* number of setInterval calls made so far.
EffectStep(s, job) ==
    IF ShouldStartTimer(job, s.intervals)
    THEN [intervals |-> s.intervals @@ (job.id :> (s.n + 1)),
          timers |-> s.timers \cup {[id |-> s.n + 1, job |-> job]},
          n |-> s.n + 1]
    ELSE IF ShouldStopTimer(job, s.intervals)
    THEN [intervals |-> Without(s.intervals, {job.id}),
          timers |-> {t \in s.timers : t.id # s.intervals[job.id]},
          n |-> s.n]
    ELSE s

RECURSIVE effectBody(_, _)
effectBody(js, s) ==
    IF js = <<>> THEN s ELSE effectBody(Tail(js), EffectStep(s, Head(js)))

\* intervals.forEach(intervalId => clearInterval(intervalId)): the entries
\* stay in the map.
clearIntervals(ivs, tms) ==
    {t \in tms : \A j \in DOMAIN ivs : ivs[j] # t.id}

\* Mutant of useEffect: no cleanup, and a new map in every run.
useEffect_FreshMap(js, ivs, tms, n) ==
    effectBody(js, [intervals |-> EmptyMap, timers |-> tms, n |-> n])

\* The effect after a change of jobs: cleanup of the previous run, then body.
useEffect(js, ivs, tms, n) ==
    effectBody(js, [intervals |-> ivs, timers |-> clearIntervals(ivs, tms),
                    n |-> n])

\* setJobs(js) followed by the effect.
Render(js, ivs, tms) ==
    LET e == useEffect(js, ivs, tms, nTimers)
    IN  /\ jobs' = js
        /\ intervals' = e.intervals
        /\ timers' = e.timers
        /\ nTimers' = e.n

\* ai.operations.getVideosOperation for the k-th status call of an operation
getVideosOperation(o, handle, k) ==
    IF k <= o.m
    THEN [done |-> FALSE, uri |-> FALSE, error |-> FALSE,
          handle |-> [op |-> handle.op, gen |-> k]]
    ELSE [done |-> TRUE, uri |-> (o.final = "uri"),
          error |-> (o.final = "error"),
          handle |-> [op |-> handle.op, gen |-> k]]

\* Mutant of checkVideoOperation: the error field is tested before the
\* locator.
checkVideoOperation_ErrorFirst(updatedOperation) ==
    IF ~updatedOperation.done
    THEN [status |-> "processing", videoUrl |-> Null,
          operation |-> updatedOperation.handle]
    ELSE IF updatedOperation.error
    THEN [status |-> "failed", videoUrl |-> Null,
          operation |-> updatedOperation.handle]
    ELSE IF updatedOperation.uri
    THEN [status |-> "done", videoUrl |-> "url", operation |-> NoHandle]
    ELSE [status |-> "done_no_uri", videoUrl |-> Null,
          operation |-> updatedOperation.handle]

checkVideoOperation(updatedOperation) ==
    IF ~updatedOperation.done
    THEN [status |-> "processing", videoUrl |-> Null,
          operation |-> updatedOperation.handle]
    ELSE IF updatedOperation.uri
    THEN [status |-> "done", videoUrl |-> "url", operation |-> NoHandle]
    ELSE IF updatedOperation.error
    THEN [status |-> "failed", videoUrl |-> Null,
          operation |-> updatedOperation.handle]
    ELSE [status |-> "done_no_uri", videoUrl |-> Null,
          operation |-> updatedOperation.handle]

\* The update checkVideoStatus makes for a response (ok: response.ok).
PollUpdate(job, ok, res) ==
    IF ~ok
    THEN [error |-> "poll error", videoResult |-> NoVideo,
          loading |-> [job.loading EXCEPT !.video = FALSE]]
    ELSE IF res.status = "done"
    THEN [videoResult |-> [status |-> "done", videoUrl |-> res.videoUrl,
                           operation |-> NoHandle],
          loading |-> [job.loading EXCEPT !.video = FALSE]]
    ELSE IF res.status = "done_no_uri" \/ res.status = "failed"
    THEN [error |-> "no result", videoResult |-> NoVideo,
          loading |-> [job.loading EXCEPT !.video = FALSE]]
    ELSE [videoResult |-> [job.videoResult EXCEPT !.operation = res.operation]]

\* createApiHandler: the update made before the fetch
StartUpdate(job, type) ==
    [loading |-> [job.loading EXCEPT ![type] = TRUE], error |-> Null]
    @@ (IF type = "catalog" THEN [catalogImage |-> Null]
        ELSE IF type = "thematic" THEN [thematicImages |-> <<>>]
        ELSE [videoResult |-> NoVideo])

\* resultUpdater of the three handlers
resultUpdater(f, images) ==
    IF f.type = "catalog" THEN [catalogImage |-> images[1]]
    ELSE IF f.type = "thematic" THEN [thematicImages |-> images]
    ELSE [videoResult |-> [status |-> "processing", videoUrl |-> Null,
                           operation |-> [op |-> f.ctl, gen |-> 0]]]

\* The fetches whose controller is aborted when the controllers of ids are
AbortedFetches(ids) ==
    {f \in fetches : f.jobId \in ids /\ f.jobId \in DOMAIN abortControllers
                     /\ abortControllers[f.jobId] = f.ctl}

\* The catch branch for AbortError, for every aborted fetch
afterAbort(js, aborted) ==
    [i \in 1..Len(js) |->
        IF \E f \in aborted : f.jobId = js[i].id
        THEN LET f == CHOOSE g \in aborted : g.jobId = js[i].id
             IN  Merge(js[i], [error |-> "cancelled",
                               loading |-> [f.loading EXCEPT ![f.type] = FALSE]])
        ELSE js[i]]

\* The operations whose handle a job of js holds while it is 'processing'
HeldOps(js) ==
    {js[i].videoResult.operation.op : i \in
        {k \in 1..Len(js) : js[k].videoResult.status = "processing"}}

JobIdsOf(js) == {js[i].id : i \in 1..Len(js)}

\* The status calls made so far, on all operations
RECURSIVE PollCalls(_)
PollCalls(os) ==
    IF os = {} THEN 0
    ELSE LET o == CHOOSE x \in os : TRUE
         IN  Len(ops[o].sent) + PollCalls(os \ {o})

HandleFileChange ==
    /\ UNCHANGED <<retryVars, batchVars, thematicVars, gateVars>>
    /\ mounted
    /\ jobs = <<>>
    /\ nVideoUploads < MaxVideoUploads
    /\ \E k \in 1..MaxVideoFiles :
        LET settledJobs == [i \in 1..k |-> newJob(VideoJobId(nVideoUploads, i))]
        IN  Render(jobs \o settledJobs, intervals, timers)
    /\ nVideoUploads' = nVideoUploads + 1
    /\ UNCHANGED <<abortControllers, fetches, polls, ops, mounted, nFetches,
                   disturbed, cancelled>>

HandleClearAll ==
    /\ UNCHANGED <<retryVars, batchVars, thematicVars, gateVars>>
    /\ mounted
    /\ jobs # <<>>
    /\ Render(<<>>, EmptyMap, clearIntervals(intervals, timers))
    /\ abortControllers' = EmptyMap
    /\ fetches' = fetches \ AbortedFetches(DOMAIN abortControllers)
    /\ cancelled' = cancelled \cup HeldOps(jobs)
    /\ disturbed' = DOMAIN ops
    /\ UNCHANGED <<polls, ops, mounted, nFetches, nVideoUploads>>

HandleRemoveJob ==
    /\ UNCHANGED <<retryVars, batchVars, thematicVars, gateVars>>
    /\ mounted
    /\ \E i \in 1..Len(jobs) :
        LET idToRemove == jobs[i].id
            ivs == Without(intervals, {idToRemove})
            tms == IF idToRemove \in DOMAIN intervals
                   THEN {t \in timers : t.id # intervals[idToRemove]}
                   ELSE timers
        IN  /\ Render(SelectSeq(jobs, LAMBDA j : j.id # idToRemove), ivs, tms)
            /\ abortControllers' = Without(abortControllers, {idToRemove})
            /\ fetches' = fetches \ AbortedFetches({idToRemove})
            /\ cancelled' = cancelled \cup HeldOps(<<jobs[i]>>)
            /\ disturbed' = disturbed \cup
                   {o \in DOMAIN ops : ops[o].jobId = idToRemove}
    /\ UNCHANGED <<polls, ops, mounted, nFetches, nVideoUploads>>

HandleStopGeneration ==
    /\ UNCHANGED <<retryVars, batchVars, thematicVars, gateVars>>
    /\ mounted
    /\ isAnyJobProcessing(jobs)
    /\ LET aborted == AbortedFetches(DOMAIN abortControllers)
           stopped == [i \in 1..Len(jobs) |->
                          [jobs[i] EXCEPT !.loading = NotLoading]]
       IN  /\ Render(afterAbort(stopped, aborted), intervals, timers)
           /\ fetches' = fetches \ aborted
    /\ abortControllers' = EmptyMap
    /\ cancelled' = cancelled \cup HeldOps(jobs)
    /\ disturbed' = DOMAIN ops
    /\ UNCHANGED <<polls, ops, mounted, nFetches, nVideoUploads>>

\* A click on one of the three "Generar" buttons: createApiHandler up to the
\* await of fetch, for every job.
HandleGenerate ==
    /\ UNCHANGED <<retryVars, batchVars, thematicVars, gateVars>>
    /\ mounted
    /\ jobs # <<>>
    /\ ~isAnyJobProcessing(jobs)
    /\ nFetches + Len(jobs) <= MaxFetches
    /\ \E type \in LoadingTypes :
        LET ctl(i) == nFetches + i
        IN  /\ Render([i \in 1..Len(jobs) |->
                          Merge(jobs[i], StartUpdate(jobs[i], type))],
                      intervals, timers)
            /\ abortControllers' =
                   [id \in (DOMAIN abortControllers) \cup JobIdsOf(jobs) |->
                       IF \E i \in 1..Len(jobs) : jobs[i].id = id
                       THEN ctl(CHOOSE i \in 1..Len(jobs) : jobs[i].id = id)
                       ELSE abortControllers[id]]
            /\ fetches' = fetches \cup
                   {[ctl |-> ctl(i), jobId |-> jobs[i].id, type |-> type,
                     loading |-> jobs[i].loading] : i \in 1..Len(jobs)}
            /\ ops' = [o \in DOMAIN ops |->
                          IF type = "video" /\ ops[o].jobId \in JobIdsOf(jobs)
                          THEN [ops[o] EXCEPT !.released = TRUE]
                          ELSE ops[o]]
    /\ nFetches' = nFetches + Len(jobs)
    /\ disturbed' = DOMAIN ops
    /\ UNCHANGED <<polls, mounted, nVideoUploads, cancelled>>

\* The fetch of createApiHandler settles: response.ok with a result, or an
\* error that is not an abort; then the finally block.
FetchCompletes ==
    /\ UNCHANGED <<retryVars, batchVars, thematicVars, gateVars>>
    /\ mounted
    /\ \E f \in fetches :
        /\ fetches' = fetches \ {f}
        /\ abortControllers' = Without(abortControllers, {f.jobId})
        /\ \/ /\ f.type # "video"
              /\ \E images \in (IF f.type = "catalog" THEN {<<"image">>}
                                ELSE ThematicResults) :
                    Render(updateJob(jobs, f.jobId,
                               resultUpdater(f, images) @@
                               [loading |-> [f.loading EXCEPT ![f.type] = FALSE]]),
                           intervals, timers)
              /\ UNCHANGED ops
           \/ /\ f.type = "video"
              /\ Render(updateJob(jobs, f.jobId,
                            resultUpdater(f, <<>>) @@
                            [loading |-> [f.loading EXCEPT ![f.type] = FALSE]]),
                        intervals, timers)
              /\ ops' = ops @@ (f.ctl :> [jobId |-> f.jobId, m |-> -1,
                                          final |-> "unknown", sent |-> <<>>,
                                          noUriAt |-> -1, failedAt |-> -1,
                                          errAt |-> -1,
                                          released |-> FALSE])
           \/ /\ Render(updateJob(jobs, f.jobId,
                            [error |-> "generation error",
                             loading |-> [f.loading EXCEPT ![f.type] = FALSE]]),
                        intervals, timers)
              /\ UNCHANGED ops
    /\ UNCHANGED <<polls, mounted, nFetches, nVideoUploads, disturbed, cancelled>>

\* A timer fires: checkVideoStatus(job) up to the await of fetch, with the
\* job the callback closed over.
TimerTick ==
    /\ UNCHANGED <<retryVars, batchVars, thematicVars, gateVars>>
    /\ mounted
    /\ \E t \in timers :
        LET handle == t.job.videoResult.operation
            k == Len(ops[handle.op].sent) + 1
        IN  /\ handle # NoHandle
            /\ PollCalls(DOMAIN ops) < MaxPollCalls
            /\ \E m \in 0..MaxProcessingTicks : \E final \in Finals :
                LET o == [ops[handle.op] EXCEPT !.m = m, !.final = final,
                                                !.sent = Append(@, handle.gen)]
                IN  /\ ops[handle.op].m < 0
                       \/ (m = ops[handle.op].m /\ final = ops[handle.op].final)
                    /\ polls' = polls \cup
                           {[op |-> handle.op, k |-> k, job |-> t.job,
                             result |-> checkVideoOperation(
                                 getVideosOperation(o, handle, k))]}
                    /\ ops' = [ops EXCEPT ![handle.op] = o]
    /\ UNCHANGED <<jobs, intervals, timers, nTimers, abortControllers, fetches,
                   mounted, nFetches, nVideoUploads, disturbed, cancelled>>

\* The response of /api/video-status arrives (responses of different calls
\* in any order), or the call fails.
PollResponds ==
    /\ UNCHANGED <<retryVars, batchVars, thematicVars, gateVars>>
    /\ mounted
    /\ \E p \in polls : \E ok \in BOOLEAN :
        /\ polls' = polls \ {p}
        /\ Render(updateJob(jobs, p.job.id, PollUpdate(p.job, ok, p.result)),
                  intervals, timers)
        /\ ops' = [ops EXCEPT
                ![p.op].noUriAt =
                    IF ok /\ p.result.status = "done_no_uri" /\ @ < 0
                    THEN Len(ops[p.op].sent) ELSE @,
                ![p.op].failedAt =
                    IF ok /\ p.result.status = "failed" /\ @ < 0
                    THEN Len(ops[p.op].sent) ELSE @,
                ![p.op].errAt =
                    IF ~ok /\ @ < 0 THEN Len(ops[p.op].sent) ELSE @,
                ![p.op].released =
                    @ \/ ~ok \/ p.result.status # "processing"]
        /\ disturbed' = IF ok THEN disturbed ELSE disturbed \cup {p.op}
    /\ UNCHANGED <<abortControllers, fetches, mounted, nFetches, nVideoUploads,
                   cancelled>>

\* The component is torn down: the cleanup of the effect.
Unmount ==
    /\ UNCHANGED <<retryVars, batchVars, thematicVars, gateVars>>
    /\ mounted
    /\ mounted' = FALSE
    /\ timers' = clearIntervals(intervals, timers)
    /\ disturbed' = DOMAIN ops
    /\ UNCHANGED <<jobs, intervals, nTimers, abortControllers, fetches, polls,
                   ops, nFetches, nVideoUploads, cancelled>>

InitVideo ==
    RetryIdle /\ BatchIdle /\ VideoIdle /\ ThematicIdle /\ GateIdle

NextVideo ==
    \/ HandleFileChange
    \/ HandleClearAll
    \/ HandleRemoveJob
    \/ HandleStopGeneration
    \/ HandleGenerate
    \/ FetchCompletes
    \/ TimerTick
    \/ PollResponds
    \/ Unmount

SpecVideo == InitVideo /\ [][NextVideo]_vars

\* ------------------------------------------------------------------------
\* generateThematicImages and the /api/thematic handler
\* ------------------------------------------------------------------------
\* A text is a sequence of tokens; the placeholders and the replacement
\* patterns of String.prototype.replace are tokens of their own.
\*
\* THEMATIC_BASE_PROMPT: the two placeholders and the text around them
thematicBasePrompt ==
    <<"TASK", "THEME:", "{{THEME}}", "COMPOSITION STYLE:",
      "{{STYLE_GUIDANCE}}", "CRITICAL RULES">>

creativeStyles ==
    << <<"Elegant Still Life">>, <<"Immersive Scene">>, <<"Macro & Texture">> >>

\* maxRetries: number = 3
DefaultMaxRetries == 3

\* await delay(5000) between two generations
GenerationGap == 5000

\* What the user can type into the theme field (ThemeSelector) and a client
\* can put into the request body.
Themes ==
    { <<>>, <<" ">>, <<"Navidad">>, <<"Black", " ", "Friday">>, <<"$&">>,
      <<"{{STYLE_GUIDANCE}}">> }

\* String.prototype.indexOf, 0 when the token does not occur
indexOf(s, tok) ==
    IF \E i \in 1..Len(s) : s[i] = tok
    THEN CHOOSE i \in 1..Len(s) :
            s[i] = tok /\ \A j \in 1..(i - 1) : s[j] # tok
    ELSE 0

\* The replacement text of String.prototype.replace: $$ is a dollar sign,
\* $& the matched text, $` the text before it and $' the text after it.
RECURSIVE GetSubstitution(_, _, _, _)
GetSubstitution(replacement, matched, before, after) ==
    IF replacement = <<>> THEN <<>>
    ELSE LET t == Head(replacement)
             out == IF t = "$$" THEN <<"$">>
                    ELSE IF t = "$&" THEN <<matched>>
                    ELSE IF t = "$`" THEN before
                    ELSE IF t = "$'" THEN after
                    ELSE <<t>>
         IN  out \o GetSubstitution(Tail(replacement), matched, before, after)

\* String.prototype.replace with a string pattern: the first occurrence only
replace(s, pattern, replacement) ==
    LET i == indexOf(s, pattern)
    IN  IF i = 0 THEN s
        ELSE LET before == SubSeq(s, 1, i - 1)
                 after == SubSeq(s, i + 1, Len(s))
             IN  before \o GetSubstitution(replacement, pattern, before, after)
                        \o after

\* const prompts = creativeStyles.map(styleGuidance => ...)
prompts(userTheme) ==
    [i \in 1..Len(creativeStyles) |->
        replace(replace(thematicBasePrompt, "{{THEME}}", userTheme),
                "{{STYLE_GUIDANCE}}", creativeStyles[i])]

\* prompts.indexOf(prompt) for the prompt at position i
promptIndex(userTheme, i) ==
    CHOOSE k \in 1..i :
        /\ prompts(userTheme)[k] = prompts(userTheme)[i]
        /\ \A j \in 1..(k - 1) : prompts(userTheme)[j] # prompts(userTheme)[i]

\* if (prompts.length > 1 && prompts.indexOf(prompt) < prompts.length - 1)
DelayAfter(userTheme, i) ==
    /\ Len(prompts(userTheme)) > 1
    /\ promptIndex(userTheme, i) < Len(prompts(userTheme))

\* Entries of tLog
RequestEntry(i) ==
    [e |-> "request", style |-> i, prompt |-> prompts(theme)[i], ms |-> 0]

DelayEntry(ms) ==
    [e |-> "delay", style |-> 0, prompt |-> <<>>, ms |-> ms]

AnswerEntry(i, kind) ==
    [e |-> kind, style |-> i, prompt |-> <<>>, ms |-> 0]

\* tLog once the provider answered o to the call for prompt i
Answered(i, o) == Append(tLog, AnswerEntry(i, o.kind))

\* The handler of /api/thematic around the call of generateThematicImages:
\* 200 with the images, or 500 with the message of the error thrown.
ThematicResponse(outcome) ==
    IF outcome.kind = "returned"
    THEN [status |-> 200, images |-> outcome.images]
    ELSE [status |-> 500, images |-> <<>>]

\* generateThematicImages returns or throws, and the handler answers.
Settle(outcome) ==
    /\ tpc' = "done"
    /\ tOutcome' = outcome
    /\ tResponse' = ThematicResponse(outcome)

Returned(images) == [kind |-> "returned", images |-> images]

\* Mutant of Threw: the images generated so far are returned instead.
Threw_Partial == [kind |-> "returned", images |-> tResults]

\* throw new Error(...): generateThematicImages rejects
Threw == [kind |-> "threw", images |-> <<>>]

\* responses.map(extractBase64Image).filter(img => img !== null)
RECURSIVE enhancedImages(_, _)
enhancedImages(answers, i) ==
    IF i > Len(answers) THEN <<>>
    ELSE (IF answers[i] = "image" THEN <<i>> ELSE <<>>)
         \o enhancedImages(answers, i + 1)

\* A request to /api/thematic arrives: the checks of the handler, then
\* generateThematicImages up to its first await.
ApiThematic ==
    /\ tpc = "idle"
    /\ \E method \in {"POST", "GET"} :
        IF method # "POST"
        THEN /\ tpc' = "done"
             /\ tResponse' = [status |-> 405, images |-> <<>>]
             /\ UNCHANGED <<tIndex, tAttempt, tDelay, tLog, tInflight,
                            tOutcome>>
        ELSE IF theme = <<>>
        THEN /\ tpc' = "done"
             /\ tResponse' = [status |-> 400, images |-> <<>>]
             /\ UNCHANGED <<tIndex, tAttempt, tDelay, tLog, tInflight,
                            tOutcome>>
        ELSE IF tVariant = "sequential" /\ trim(theme) = <<>>
        THEN /\ Settle(Threw)
             /\ UNCHANGED <<tIndex, tAttempt, tDelay, tLog, tInflight>>
        ELSE IF tVariant = "parallel"
        THEN /\ tpc' = "await"
             /\ tLog' = [i \in 1..Len(creativeStyles) |-> RequestEntry(i)]
             /\ tInflight' = 1..Len(creativeStyles)
             /\ UNCHANGED <<tIndex, tAttempt, tDelay, tOutcome, tResponse>>
        ELSE /\ tpc' = "await"
             /\ tIndex' = 1
             /\ tAttempt' = 0
             /\ tDelay' = IF tVariant = "sequential" THEN InitialDelay ELSE 0
             /\ tLog' = <<RequestEntry(1)>>
             /\ tInflight' = {1}
             /\ UNCHANGED <<tOutcome, tResponse>>
    /\ UNCHANGED <<tVariant, theme, tAnswers, tResults>>
    /\ UNCHANGED <<retryVars, batchVars, videoVars, gateVars>>

\* part_000:159-165 after generateWithRetry answered for prompt i: the catch
\* block of generateWithRetry, results.push, the delay and the end of the
\* loop.
SequentialAnswer(i, o) ==
    IF AfterResponse(o.kind, "throw") = "return"
    THEN /\ tResults' = Append(tResults, i)
         /\ IF DelayAfter(theme, i)
            THEN /\ tpc' = "gap"
                 /\ tLog' = Append(Answered(i, o), DelayEntry(GenerationGap))
                 /\ tInflight' = {}
                 /\ UNCHANGED <<tIndex, tAttempt, tDelay, tOutcome, tResponse>>
            ELSE IF i < Len(creativeStyles)
            THEN /\ tpc' = "await"
                 /\ tLog' = Append(Answered(i, o), RequestEntry(i + 1))
                 /\ tInflight' = {i + 1}
                 /\ tIndex' = i + 1
                 /\ tAttempt' = 0
                 /\ tDelay' = InitialDelay
                 /\ UNCHANGED <<tOutcome, tResponse>>
            ELSE /\ tLog' = Answered(i, o)
                 /\ tInflight' = {}
                 /\ UNCHANGED <<tIndex, tAttempt, tDelay>>
                 /\ IF Len(tResults) + 1 # Len(creativeStyles)
                    THEN Settle(Threw)
                    ELSE Settle(Returned(Append(tResults, i)))
    ELSE LET message == IF o.kind = "error" THEN o.msg ELSE NoImageMessage
         IN  /\ tResults' = tResults
             /\ tInflight' = {}
             /\ UNCHANGED <<tIndex, tAttempt, tDelay>>
             /\ IF ShouldRetry(message, tAttempt, DefaultMaxRetries)
                THEN /\ tpc' = "backoff"
                     /\ tLog' = Append(Answered(i, o), DelayEntry(tDelay))
                     /\ UNCHANGED <<tOutcome, tResponse>>
                ELSE /\ tLog' = Answered(i, o)
                     /\ Settle(Threw)

\* geminiService.ts:124-132: Promise.all rejects with the first rejection,
\* and resolves when the last call resolved.
ParallelAnswer(i, o) ==
    /\ tResults' = tResults
    /\ tLog' = Answered(i, o)
    /\ IF tpc = "done"
       THEN UNCHANGED <<tpc, tOutcome, tResponse>>
       ELSE IF o.kind = "error"
       THEN Settle(Threw)
       ELSE IF tInflight = {i}
       THEN LET images == enhancedImages([tAnswers EXCEPT ![i] = o.kind], 1)
            IN  IF Len(images) = 0
                THEN Settle(Threw)
                ELSE Settle(Returned(images))
       ELSE UNCHANGED <<tpc, tOutcome, tResponse>>

\* part_001:135-157: push the image or log the error, then the next prompt
\* or the return.
TolerantAnswer(i, o) ==
    LET generatedImages == IF o.kind = "image" THEN Append(tResults, i)
                           ELSE tResults
    IN  /\ tResults' = generatedImages
        /\ IF i < Len(creativeStyles)
           THEN /\ tpc' = "await"
                /\ tLog' = Append(Answered(i, o), RequestEntry(i + 1))
                /\ UNCHANGED <<tOutcome, tResponse>>
           ELSE /\ tLog' = Answered(i, o)
                /\ Settle(Returned(generatedImages))

\* ai.models.generateContent answers one of the calls in flight.
ThematicAnswers ==
    /\ \E i \in tInflight, o \in ProviderOutcomes :
        /\ tAnswers' = [tAnswers EXCEPT ![i] = o.kind]
        /\ IF tVariant = "sequential"
           THEN SequentialAnswer(i, o)
           ELSE IF tVariant = "parallel"
           THEN /\ ParallelAnswer(i, o)
                /\ tInflight' = tInflight \ {i}
                /\ UNCHANGED <<tIndex, tAttempt, tDelay>>
           ELSE /\ TolerantAnswer(i, o)
                /\ tInflight' = IF i < Len(creativeStyles) THEN {i + 1}
                                ELSE {}
                /\ tIndex' = IF i < Len(creativeStyles) THEN i + 1 ELSE i
                /\ UNCHANGED <<tAttempt, tDelay>>
    /\ UNCHANGED <<tVariant, theme>>
    /\ UNCHANGED <<retryVars, batchVars, videoVars, gateVars>>

\* A delay of the sequential version elapses: the gap between two prompts
\* (the next generateWithRetry starts) or the backoff of generateWithRetry
\* (currentDelay *= 2; attempt++; the loop test; the next call).
ThematicDelayElapses ==
    /\ tpc \in {"gap", "backoff"}
    /\ IF tpc = "gap"
       THEN /\ tIndex' = tIndex + 1
            /\ tAttempt' = 0
            /\ tDelay' = InitialDelay
            /\ tpc' = "await"
            /\ tLog' = Append(tLog, RequestEntry(tIndex + 1))
            /\ tInflight' = {tIndex + 1}
            /\ UNCHANGED <<tOutcome, tResponse>>
       ELSE /\ tIndex' = tIndex
            /\ tAttempt' = tAttempt + 1
            /\ tDelay' = NextDelay(tDelay)
            /\ IF tAttempt + 1 < DefaultMaxRetries
               THEN /\ tpc' = "await"
                    /\ tLog' = Append(tLog, RequestEntry(tIndex))
                    /\ tInflight' = {tIndex}
                    /\ UNCHANGED <<tOutcome, tResponse>>
               ELSE /\ Settle(Threw)
                    /\ UNCHANGED <<tLog, tInflight>>
    /\ UNCHANGED <<tVariant, theme, tAnswers, tResults>>
    /\ UNCHANGED <<retryVars, batchVars, videoVars, gateVars>>

\* createApiHandler('thematic', ...) once the fetch of /api/thematic
\* answered: the thematicImages and the error of the job, which the handler
\* had set to [] and null before the fetch.
ThematicJob(response) ==
    IF response.status = 200
    THEN [thematicImages |-> response.images, error |-> Null]
    ELSE [thematicImages |-> <<>>, error |-> "generation error"]

InitThematic ==
    /\ RetryIdle
    /\ BatchIdle
    /\ VideoIdle
    /\ GateIdle
    /\ tVariant \in {"sequential", "parallel", "tolerant"}
    /\ theme \in Themes
    /\ tpc = "idle"
    /\ tIndex = 0
    /\ tAttempt = 0
    /\ tDelay = 0
    /\ tLog = <<>>
    /\ tInflight = {}
    /\ tAnswers = <<"none", "none", "none">>
    /\ tResults = <<>>
    /\ tOutcome = [kind |-> "none", images |-> <<>>]
    /\ tResponse = [status |-> 0, images |-> <<>>]

NextThematic ==
    \/ ApiThematic
    \/ ThematicAnswers
    \/ ThematicDelayElapses

SpecThematic == InitThematic /\ [][NextThematic]_vars

\* ------------------------------------------------------------------------
\* The handler of /api/enhance: src/api/enhance.ts:4-59 ("first"),
\* src/api/enhance.ts:228-301 ("security") and src/unnamed/part_006:9-89
\* ("part006").

\* The value of process.env.SERVER_API_KEY when it is set
ServerKey == "k"

\* request.headers.authorization, split at the blanks
AuthHeaders == { <<>>, <<"Bearer", "k">>, <<"Bearer", "x">>, <<"Bearer">> }

Modes == {"undefined", "catalog", "thematic", "video_start", "video_check",
          "other"}

\* request.body: no body, or an object whose fields are present or not
Bodies ==
    {NoBody} \cup
    [present : {TRUE}, mode : Modes, base64Image : BOOLEAN,
     mimeType : BOOLEAN, userTheme : {"absent", "blank", "text"},
     prompt : BOOLEAN, operation : BOOLEAN]

GateRequests ==
    [method : {"POST", "GET"}, serverKey : BOOLEAN, apiKey : BOOLEAN,
     authorization : AuthHeaders, body : Bodies]

\* What ai.operations.getVideosOperation can answer for the operation of a
\* video_check request
UpdatedOperations ==
    [done : BOOLEAN, uri : BOOLEAN, error : BOOLEAN,
     handle : {[op |-> 1, gen |-> 1]}]

\* What the service function does: it returns, or throws an error whose
\* message is of one of these kinds.
ServiceOutcomes == {"returned", "error", "timeout", "unauthorized"}

\* request.headers.authorization?.split(' ')[1]
apiKeyOf(h) == IF Len(h) >= 2 THEN h[2] ELSE "undefined"

\* securityCheck, and the same checks at the top of the first handler: the
\* status it answers with, 0 when the request passes.
securityCheck(req) ==
    IF req.method # "POST" THEN 405
    ELSE IF ~req.serverKey THEN 500
    ELSE IF apiKeyOf(req.authorization) = "undefined"
            \/ apiKeyOf(req.authorization) # ServerKey THEN 401
    ELSE 0

\* PASO 1 of part_006
securityCheck006(req) ==
    IF req.method # "POST" THEN 405
    ELSE IF ~req.serverKey THEN 500
    ELSE IF ~req.apiKey THEN 500
    ELSE IF req.authorization = <<>>
            \/ req.authorization # <<"Bearer", ServerKey>> THEN 401
    ELSE 0

\* !userTheme || typeof userTheme !== 'string' || userTheme.trim().length === 0
themeMissing(b) == b.userTheme \in {"absent", "blank"}

\* Input validation of the first handler: 400, or the service to call
validateFirst(b) ==
    IF ~b.base64Image \/ ~b.mimeType \/ b.mode = "undefined"
    THEN [status |-> 400, service |-> "none"]
    ELSE IF b.mode # "catalog" /\ b.mode # "thematic"
    THEN [status |-> 400, service |-> "none"]
    ELSE IF b.mode = "thematic" /\ themeMissing(b)
    THEN [status |-> 400, service |-> "none"]
    ELSE [status |-> 0,
          service |-> IF b.mode = "catalog" THEN "generateCatalogImage"
                      ELSE "generateThematicImages"]

\* switch (mode) of the two later handlers: 400, or the service to call
validateSwitch(b) ==
    IF b.mode \in {"catalog", "thematic"}
    THEN IF ~b.base64Image \/ ~b.mimeType
         THEN [status |-> 400, service |-> "none"]
         ELSE IF b.mode = "thematic" /\ themeMissing(b)
         THEN [status |-> 400, service |-> "none"]
         ELSE [status |-> 0,
               service |-> IF b.mode = "catalog" THEN "generateCatalogImage"
                           ELSE "generateThematicImages"]
    ELSE IF b.mode = "video_start"
    THEN IF ~b.base64Image \/ ~b.mimeType \/ ~b.prompt
         THEN [status |-> 400, service |-> "none"]
         ELSE [status |-> 0, service |-> "generatePresentationVideo"]
    ELSE IF b.mode = "video_check"
    THEN IF ~b.operation
         THEN [status |-> 400, service |-> "none"]
         ELSE [status |-> 0, service |-> "checkVideoOperation"]
    ELSE [status |-> 400, service |-> "none"]

\* The status of the response after the service call
statusAfter(v, service, outcome) ==
    IF outcome = "returned"
    THEN IF v # "first" /\ service = "generatePresentationVideo"
         THEN 202 ELSE 200
    ELSE IF v = "part006" /\ outcome = "timeout" THEN 504
    ELSE IF v = "security" /\ outcome = "unauthorized" THEN 401
    ELSE 500

\* The handler runs up to its first response, to its await of the service
\* function, or to the TypeError of destructuring a body that is not there
\* (before the try block: the handler sends no response).
GateHandle ==
    /\ UNCHANGED <<retryVars, batchVars, videoVars, thematicVars>>
    /\ gpc = "idle"
    /\ LET refused == IF gVariant = "part006" THEN securityCheck006(gRequest)
                      ELSE securityCheck(gRequest)
           checked == IF gVariant = "first" THEN validateFirst(gRequest.body)
                      ELSE validateSwitch(gRequest.body)
       IN  IF refused # 0
           THEN /\ gResponses' = Append(gResponses, refused)
                /\ gpc' = "answered"
                /\ UNCHANGED gCalls
           ELSE IF ~gRequest.body.present
           THEN /\ gpc' = "threw"
                /\ UNCHANGED <<gCalls, gResponses>>
           ELSE IF checked.status # 0
           THEN /\ gResponses' = Append(gResponses, checked.status)
                /\ gpc' = "answered"
                /\ UNCHANGED gCalls
           ELSE /\ gCalls' = Append(gCalls, checked.service)
                /\ gpc' = "calling"
                /\ UNCHANGED gResponses
    /\ UNCHANGED <<gVariant, gRequest, gResult>>

\* The service function returns or throws: the response of the try block or
\* of the catch block.
GateServiceSettles ==
    /\ UNCHANGED <<retryVars, batchVars, videoVars, thematicVars>>
    /\ gpc = "calling"
    /\ \E outcome \in ServiceOutcomes :
        /\ gResponses' = Append(gResponses,
                           statusAfter(gVariant, gCalls[Len(gCalls)], outcome))
        /\ IF outcome = "returned" /\ gCalls[Len(gCalls)] = "checkVideoOperation"
           THEN \E u \in UpdatedOperations :
                    gResult' = [operation |-> u,
                                result |-> checkVideoOperation(u)]
           ELSE UNCHANGED gResult
    /\ gpc' = "answered"
    /\ UNCHANGED <<gVariant, gRequest, gCalls>>

InitGate ==
    /\ RetryIdle
    /\ BatchIdle
    /\ VideoIdle
    /\ ThematicIdle
    /\ gVariant \in {"first", "security", "part006"}
    /\ gRequest \in GateRequests
    /\ gpc = "idle"
    /\ gCalls = <<>>
    /\ gResponses = <<>>
    /\ gResult = NoResult

NextGate ==
    \/ GateHandle
    \/ GateServiceSettles

SpecGate == InitGate /\ [][NextGate]_vars

\* ------------------------------------------------------------------------
\* Properties of the retry wrapper (checked under SpecRetry)
\* ------------------------------------------------------------------------
SameLetter(a, b) ==
    \/ a = b
    \/ \E j \in 1..Len(UpperChars) : {a, b} = {UpperChars[j], LowerChars[j]}

ContainsIgnoringCase(s, pat) ==
    \E i \in 0..(Len(s) - Len(pat)) :
        \A k \in 1..Len(pat) : SameLetter(s[i + k], pat[k])

\* A rate-limit message, as the specification words it.
TransientMessage(m) ==
    \/ ContainsIgnoringCase(m, Str429)
    \/ ContainsIgnoringCase(m, StrResourceExhausted)
    \/ ContainsIgnoringCase(m, StrQuota)

TransientOutcome(o) == o.kind = "error" /\ TransientMessage(o.msg)

AllTransient == \A i \in 1..Len(outcomes) : TransientOutcome(outcomes[i])

Terminated == rpc \in {"returned", "failed"}

LastOutcome == outcomes[Len(outcomes)]

\* C1 (retry bound): with maxRetries = n >= 1 and a provider that answers
\* every call with a transient error, the call fails after exactly n
\* provider calls and n - 1 backoff waits, not earlier and not later, and
\* the failed call takes no further step.
C1_RetryBound ==
    (maxRetries >= 1 /\ AllTransient) =>
        /\ calls <= maxRetries
        /\ Len(waits) <= maxRetries - 1
        /\ (Len(outcomes) < maxRetries => ~Terminated)
        /\ (Len(outcomes) = maxRetries =>
                /\ rpc = "failed"
                /\ calls = maxRetries
                /\ Len(waits) = maxRetries - 1
                /\ ~ENABLED NextRetry)

C1_Witness ==
    /\ maxRetries = 3
    /\ Len(outcomes) = 3
    /\ AllTransient
    /\ rpc = "failed"

\* C2 (backoff monotonicity): the first wait is 5000 ms and every later
\* wait is exactly double the one before it; the i-th wait follows the
\* transient failure of the i-th provider call and is followed by the
\* next provider call.
C2_BackoffDoubles ==
    /\ \A i \in 1..Len(waits) :
        /\ (i = 1 => waits[i] = 5000)
        /\ (i > 1 => waits[i] = 2 * waits[i - 1])
        /\ i <= Len(outcomes)
        /\ TransientOutcome(outcomes[i])
    /\ (rpc = "waiting" => Len(waits) = calls /\ Len(outcomes) = calls)
    /\ (rpc # "waiting" /\ rpc # "start" /\ maxRetries > 0
            => calls = Len(waits) + 1)

C2_Witness ==
    /\ Len(waits) = 3
    /\ waits = <<5000, 10000, 20000>>
    /\ rpc = "calling"

\* C3 (non-transient short-circuit): a provider error whose message holds
\* none of "429", "resource_exhausted", "quota" (in any letter case) ends
\* the call at once with that error: no wait and no provider call follow
\* it, on whatever attempt it occurs.
C3_NonTransientFailsAtOnce ==
    (/\ Len(outcomes) > 0
     /\ LastOutcome.kind = "error"
     /\ ~TransientMessage(LastOutcome.msg)) =>
        /\ rpc = "failed"
        /\ result = [kind |-> "error", msg |-> LastOutcome.msg]
        /\ calls = Len(outcomes)
        /\ Len(waits) = Len(outcomes) - 1
        /\ ~ENABLED NextRetry

C3_Witness ==
    /\ maxRetries = 4
    /\ Len(outcomes) = 2
    /\ LastOutcome.kind = "error"
    /\ ~TransientMessage(LastOutcome.msg)
    /\ LastOutcome.msg # NoMessage
    /\ rpc = "failed"

\* C4 (empty result is permanent): a provider call that returns without an
\* image payload ends the wrapper at once (an error, or no image in the
\* variant that returns null): no wait and no provider call follow it, on
\* whatever attempt it occurs.
C4_EmptyResultPermanent ==
    (Len(outcomes) > 0 /\ LastOutcome.kind = "noimage") =>
        /\ \/ rpc = "failed" /\ result = [kind |-> "error", msg |-> NoImageMessage]
           \/ rpc = "returned" /\ result = [kind |-> "null", msg |-> NoMessage]
        /\ calls = Len(outcomes)
        /\ Len(waits) = Len(outcomes) - 1
        /\ ~ENABLED NextRetry

C4_Witness ==
    /\ variant = "throw"
    /\ maxRetries = 3
    /\ Len(outcomes) = 2
    /\ LastOutcome.kind = "noimage"
    /\ rpc = "failed"

\* ------------------------------------------------------------------------
\* Properties of the reducer App (checked under SpecBatch)
\* ------------------------------------------------------------------------
\* C5 (single flight): in every reachable state at most one generation
\* call is in flight for any job, whatever the interleaving of clicks on a
\* job, the batch loop with its 5000 ms gaps, generate-more and the
\* completions of calls.
C5_SingleFlight ==
    \A c1 \in inflight : \A c2 \in inflight :
        c1.jobId = c2.jobId => c1 = c2

\* C15 (job invariant, artifacts): a job that is pending, processing or in
\* error has no processedImages. (A job in 'processing_more' is left out: it
\* keeps the images of the success it came from.)
C15_ArtifactsOnlyInSuccess ==
    \A i \in 1..Len(state.jobs) :
        state.jobs[i].status \in {"pending", "processing", "error"}
            => state.jobs[i].processedImages = <<>>

\* C16 (job invariant, error): a job of the reducer has an error message
\* only while its status is 'error'.
C16_ErrorOnlyInErrorState ==
    \A i \in 1..Len(state.jobs) :
        state.jobs[i].error # Null => state.jobs[i].status = "error"

\* C18 (entering processing clears stale data): a job whose status is
\* 'processing' has no error message and no processedImages left from
\* before.
C18_ProcessingClearsStaleData ==
    \A i \in 1..Len(state.jobs) :
        state.jobs[i].status = "processing"
            => (state.jobs[i].error = Null
                /\ state.jobs[i].processedImages = <<>>)

\* The enhanceJewelryImage call c ends in this step with PROCESS_JOB_ERROR.
FailsInStep(c) ==
    /\ c \in inflight
    /\ c \notin inflight'
    /\ hasJob(state.jobs, c.jobId)
    /\ hasJob(state'.jobs, c.jobId)
    /\ findJob(state'.jobs, c.jobId).status = "error"

\* The failure of a call is recorded on its job and touches nothing else.
ErrorIsolated ==
    \A c \in inflight :
        FailsInStep(c) =>
            /\ findJob(state'.jobs, c.jobId).error # Null
            /\ Len(state'.jobs) = Len(state.jobs)
            /\ \A i \in 1..Len(state.jobs) :
                state.jobs[i].id # c.jobId => state'.jobs[i] = state.jobs[i]
            /\ state'.isBatchProcessing = state.isBatchProcessing
            /\ inflight' = inflight \ {c}
            /\ cancelBatchRef' = cancelBatchRef
            /\ \A b \in 1..Len(batches) :
                /\ batches'[b].rest = batches[b].rest
                /\ batches[b].pc # "done" => batches'[b].pc # "done"

\* A batch loop ends only at the end of its list or on "Detener", and it
\* takes a job off its list only by starting the call for it.
NoJobSkipped ==
    \A b \in 1..Len(batches) :
        /\ (batches[b].pc # "done" /\ batches'[b].pc = "done")
                => (batches[b].rest = <<>> \/ cancelBatchRef)
        /\ batches'[b].rest # batches[b].rest
                => /\ batches'[b].rest = Tail(batches[b].rest)
                   /\ \E c \in inflight' \ inflight :
                        c.by = b /\ c.jobId = batches[b].rest[1].id

\* A call ends with its job in success or in error.
EveryCallSettles ==
    \A c \in inflight :
        (c \notin inflight' /\ hasJob(state'.jobs, c.jobId))
            => findJob(state'.jobs, c.jobId).status \in {"success", "error"}

\* C20 (error isolation across jobs): a failing enhanceJewelryImage call
\* sets the error of its own job and changes no other job, no other call
\* and no batch loop; a batch loop that was not cancelled starts the call
\* of every job of its list; and every call ends with its job in success or
\* in error.
C20_ErrorIsolation ==
    [][ErrorIsolated /\ NoJobSkipped /\ EveryCallSettles]_vars

\* A batch over two pending jobs has ended: the call of the first job
\* failed, the second job was still started and succeeded.
C20_Witness ==
    /\ Len(state.jobs) = 2
    /\ Len(batches) = 1
    /\ nCalls = 2
    /\ batches[1].pc = "done"
    /\ batches[1].rest = <<>>
    /\ Len(batches[1].jobs) = 2
    /\ batches[1].jobs[1].status = "pending"
    /\ batches[1].jobs[2].status = "pending"
    /\ state.jobs[1].status = "error"
    /\ state.jobs[1].error # Null
    /\ state.jobs[2].status = "success"
    /\ state.jobs[2].error = Null

\* ------------------------------------------------------------------------
\* Properties of the video poll loop
\* ------------------------------------------------------------------------
\* The running timers whose callback polls operation o
TimersOf(o) == {t \in timers : t.job.videoResult.operation.op = o}

\* The status calls on operation o that have not been answered yet
PollsOf(o) == {p \in polls : p.op = o}

\* The job of operation o is in the list with a finished video result
FinishedVideo(o) ==
    \E i \in 1..Len(jobs) :
        /\ jobs[i].id = ops[o].jobId
        /\ jobs[i].videoResult =
               [status |-> "done", videoUrl |-> "url", operation |-> NoHandle]

\* C6 (poll termination): for an operation that the provider reports
\* 'processing' on the first m status calls and done with a video uri on call
\* m + 1, and whose job neither the user nor a failed call touched: once no
\* timer polls it and no status call is pending, exactly m + 1 status calls
\* were made and the job holds the finished video (status done, a video URL,
\* no handle). Other jobs may change meanwhile.
C6_PollTermination ==
    \A o \in DOMAIN ops :
        (/\ o \notin disturbed
         /\ ops[o].final = "uri"
         /\ TimersOf(o) = {}
         /\ PollsOf(o) = {})
        => (Len(ops[o].sent) = ops[o].m + 1 /\ FinishedVideo(o))

\* C7 (poll uses the current handle): the first status call on an operation
\* carries the handle the start returned, and the k-th call carries the
\* handle returned by the (k-1)-th response, which the provider refreshed
\* k-1 times.
C7_PollUsesCurrentHandle ==
    \A o \in DOMAIN ops :
        \A k \in 1..Len(ops[o].sent) :
            (k - 1 <= ops[o].m) => ops[o].sent[k] = k - 1

\* C8 (done without locator): once a response that reports an operation done
\* with no result locator has been handled, no further status call is made
\* on that operation.
C8_DoneWithoutLocator ==
    \A o \in DOMAIN ops :
        ops[o].noUriAt >= 0 => Len(ops[o].sent) = ops[o].noUriAt

\* C23 (provider-reported video failure): once a response that reports an
\* operation finished with a provider error has been handled, no further
\* status call is made on that operation.
C23_FailedStopsPolling ==
    \A o \in DOMAIN ops :
        ops[o].failedAt >= 0 => Len(ops[o].sent) = ops[o].failedAt

\* C9 (cancellation of video polling): an operation that was being polled
\* when the user stopped the generation, removed its job or cleared all jobs
\* has no running timer, and no job holds its handle any more.
C9_CancelStopsPolling ==
    \A o \in cancelled :
        /\ TimersOf(o) = {}
        /\ \A i \in 1..Len(jobs) : jobs[i].videoResult.operation.op # o

FailureErrors == {"generation error", "poll error", "no result"}

\* C17 (job invariant, handle): a job holds a handle only while its video
\* result is 'processing', and once the job of an operation reached done or
\* error through a poll response, or started a new video generation, no job
\* holds a handle of that operation again.
C17_HandleOnlyWhileProcessing ==
    /\ \A i \in 1..Len(jobs) :
           jobs[i].videoResult.operation # NoHandle
               => jobs[i].videoResult.status = "processing"
    /\ \A o \in DOMAIN ops :
           ops[o].released
               => \A i \in 1..Len(jobs) : jobs[i].videoResult.operation.op # o

\* C19 (entering error clears the handle): a job that carries the error
\* message of a failed generation call or of a failed poll holds no
\* operation handle.
C19_ErrorClearsHandle ==
    \A i \in 1..Len(jobs) :
        jobs[i].error \in FailureErrors
            => jobs[i].videoResult.operation = NoHandle

\* ------------------------------------------------------------------------
\* Properties of generateThematicImages (checked under SpecThematic)
\* ------------------------------------------------------------------------
\* The template with every placeholder filled in literally.
RECURSIVE Filled(_, _, _)
Filled(template, userTheme, styleGuidance) ==
    IF template = <<>> THEN <<>>
    ELSE (IF Head(template) = "{{THEME}}" THEN userTheme
          ELSE IF Head(template) = "{{STYLE_GUIDANCE}}" THEN styleGuidance
          ELSE <<Head(template)>>)
         \o Filled(Tail(template), userTheme, styleGuidance)

IsRequest(x) == x.e = "request"

IsRequestOrDelay(x) == x.e \in {"request", "delay"}

IsFailure(x) == x.e \in {"noimage", "error"}

Requests == SelectSeq(tLog, IsRequest)

RequestsAndDelays == SelectSeq(tLog, IsRequestOrDelay)

AllCallsSucceeded ==
    /\ tpc = "done"
    /\ tResponse.status \in {200, 500}
    /\ tLog # <<>>
    /\ \A k \in 1..Len(tLog) : ~IsFailure(tLog[k])

\* C11 (thematic batch ordering): when the sequential generateThematicImages
\* ran for a non-empty theme and every call succeeded, it sent exactly one
\* request per style, request i carries the base template with the theme
\* and the i-th style guidance filled in, the requests went out in the
\* order of the styles, a delay of 5000 ms lies between two consecutive
\* requests and no delay follows the last one.
C11_ThematicOrdering ==
    (tVariant = "sequential" /\ theme # <<>> /\ AllCallsSucceeded) =>
        /\ Len(Requests) = Len(creativeStyles)
        /\ \A i \in 1..Len(Requests) :
            /\ Requests[i].style = i
            /\ Requests[i].prompt
                   = Filled(thematicBasePrompt, theme, creativeStyles[i])
        /\ Len(RequestsAndDelays) = 2 * Len(creativeStyles) - 1
        /\ \A k \in 1..Len(RequestsAndDelays) :
            IF k % 2 = 1
            THEN RequestsAndDelays[k].e = "request"
            ELSE /\ RequestsAndDelays[k].e = "delay"
                 /\ RequestsAndDelays[k].ms = 5000

\* C12 (thematic calls never overlap): at most one call of
\* generateThematicImages is in flight at a time, and a request is sent
\* only after the answer to the request before it.
C12_ThematicCallsNeverOverlap ==
    /\ Cardinality(tInflight) <= 1
    /\ \A k \in 1..(Len(tLog) - 1) :
        IsRequest(tLog[k]) => ~IsRequest(tLog[k + 1])

\* The service ran and every call it made has answered.
ThematicFinished ==
    /\ tpc = "done"
    /\ tLog # <<>>
    /\ tInflight = {}

Succeeded == {i \in 1..Len(tAnswers) : tAnswers[i] = "image"}

\* C13 (partial success): when a generateThematicImages that makes all its
\* N calls (geminiService.ts:100, part_001:103) has finished and k of them
\* yielded an image, 0 < k < N, it returned exactly the images of those k
\* calls, in the order of the styles.
C13_PartialSuccess ==
    (tVariant \in {"parallel", "tolerant"}
        /\ ThematicFinished /\ Succeeded # {}
        /\ Cardinality(Succeeded) < Len(creativeStyles)) =>
        /\ tOutcome.kind = "returned"
        /\ tOutcome.images = enhancedImages(tAnswers, 1)
        /\ tResponse = [status |-> 200, images |-> enhancedImages(tAnswers, 1)]

\* C14 (zero successes is a hard failure): when generateThematicImages has
\* finished and none of its calls yielded an image, it threw, /api/thematic
\* did not answer 200, and the job carries an error message.
C14_ZeroSuccessesFails ==
    (ThematicFinished /\ Succeeded = {}) =>
        /\ tOutcome.kind = "threw"
        /\ tResponse.status # 200
        /\ ThematicJob(tResponse).error # Null

\* The same isolation in the video App, whose createApiHandler starts one
\* fetch per job: a fetch that ends with an error sets the error of its own
\* job, changes no other job and leaves the other fetches pending.
VideoErrorIsolated ==
    [][\A f \in fetches :
        (/\ f \notin fetches'
         /\ Len(jobs') = Len(jobs)
         /\ \E i \in 1..Len(jobs) :
                /\ jobs[i].id = f.jobId
                /\ jobs'[i].error = "generation error"
                /\ jobs'[i] # jobs[i])
            => /\ \A i \in 1..Len(jobs) :
                    jobs[i].id # f.jobId => jobs'[i] = jobs[i]
               /\ fetches' = fetches \ {f}]_vars

\* The timers that run for the job with this id
TimersFor(id) == {t \in timers : t.job.id = id}

\* C29 (live timer): while the component is mounted, every job whose video
\* result is 'processing' has exactly one running timer, and every entry of
\* the interval map is the id of a timer that runs.
C29_LiveTimer ==
    mounted =>
        /\ \A i \in 1..Len(jobs) :
            jobs[i].videoResult.status = "processing"
                => Cardinality(TimersFor(jobs[i].id)) = 1
        /\ \A id \in DOMAIN intervals :
            \E t \in timers : t.id = intervals[id]

\* C30 (one timer per job): at most one timer runs for any job id.
C30_OneTimerPerJob ==
    \A i \in 1..Len(jobs) : Cardinality(TimersFor(jobs[i].id)) <= 1

\* The video of a job was triggered again and its second timer runs, alone.
C30_Witness ==
    /\ nTimers >= 2
    /\ \E i \in 1..Len(jobs) :
        /\ jobs[i].videoResult.status = "processing"
        /\ Cardinality(TimersFor(jobs[i].id)) = 1
        /\ Cardinality({o \in DOMAIN ops : ops[o].jobId = jobs[i].id}) >= 2

\* The video starts that have not answered yet
PendingStarts == {f \in fetches : f.type = "video"}

\* C26 (video start precedes polling): a click on "Generar Video" makes
\* exactly one start call for each job, and a status call is issued for a
\* job only on an operation whose start call has returned, and never while
\* a start call of that job is still pending.
C26_StartPrecedesPolling ==
    [][/\ \A i \in 1..Len(jobs) :
            (\E f \in PendingStarts' \ PendingStarts : TRUE)
                => Cardinality({f \in PendingStarts' \ PendingStarts :
                                   f.jobId = jobs[i].id}) = 1
       /\ \A p \in polls' \ polls :
            /\ p.op \in DOMAIN ops
            /\ ~\E f \in PendingStarts : f.jobId = p.job.id]_vars

ReducerKeyed ==
    [][inflight' # inflight =>
        /\ Len(state'.jobs) = Len(state.jobs)
        /\ \A i \in 1..Len(state.jobs) :
            state'.jobs[i] # state.jobs[i] =>
                \E c \in (inflight \ inflight') \cup (inflight' \ inflight) :
                    c.jobId = state.jobs[i].id]_vars

\* ------------------------------------------------------------------------
\* Retry and reset in the reducer App (checked under SpecBatch)
\* ------------------------------------------------------------------------
\* The step retries the job with this id ("Reintentar").
Retried(id) ==
    /\ ClickProcessJob
    /\ \E c \in inflight' \ inflight : c.jobId = id

\* C24 (retry/reset transition): a step that resets the App, or retries a
\* job, leaves every job that was in success or error (for a retry: the
\* retried job) in the list, pending, with no images and no error.
C24_RetryResetToPending ==
    [][\A i \in 1..Len(state.jobs) :
        (/\ state.jobs[i].status \in {"success", "error"}
         /\ (HandleReset \/ Retried(state.jobs[i].id)))
            => /\ hasJob(state'.jobs, state.jobs[i].id)
               /\ findJob(state'.jobs, state.jobs[i].id).status = "pending"
               /\ findJob(state'.jobs, state.jobs[i].id).processedImages = <<>>
               /\ findJob(state'.jobs, state.jobs[i].id).error = Null]_vars

\* The jobs of js after position i that are pending, in list order
PendingAfter(js, i) ==
    SelectSeq(SubSeq(js, i + 1, Len(js)), LAMBDA j : j.status = "pending")

PositionOf(js, id) == CHOOSE i \in 1..Len(js) : js[i].id = id

\* The call c is started in this step by the batch loop b.
StartedBy(b, c) == c \in inflight' \ inflight /\ c.by = b

\* C28 (batch-all ordering): a batch loop starts a call only when no call of
\* its own is in flight, either as its first call or when the 5000 ms wait
\* after the previous call is over; the job it starts is the first pending
\* job of its snapshot that it has not started yet, in list order, and the
\* jobs left to it are the pending jobs behind that one, so that no job is
\* started twice; and the wait begins only when a call of the loop ends.
C28_BatchOrdering ==
    [][\A b \in 1..Len(batches') :
        /\ \A c \in inflight' :
            StartedBy(b, c) =>
                LET js == batches'[b].jobs
                    i == PositionOf(js, c.jobId)
                IN  /\ ~\E d \in inflight : d.by = b
                    /\ hasJob(js, c.jobId)
                    /\ js[i].status = "pending"
                    /\ batches'[b].rest = PendingAfter(js, i)
                    /\ IF b > Len(batches)
                       THEN PendingAfter(js, 0)[1].id = c.jobId
                       ELSE /\ batches[b].pc = "gap"
                            /\ batches[b].rest[1].id = c.jobId
        /\ (b <= Len(batches) /\ batches[b].pc # "gap"
                /\ batches'[b].pc = "gap")
            => \E c \in inflight \ inflight' : c.by = b]_vars

\* A batch loop over two pending jobs has started the second job after the
\* call of the first one ended.
C28_Witness ==
    /\ Len(batches) = 1
    /\ Len(batches[1].jobs) = 2
    /\ batches[1].jobs[1].status = "pending"
    /\ batches[1].jobs[2].status = "pending"
    /\ batches[1].pc = "job"
    /\ batches[1].rest = <<>>
    /\ \E c \in inflight : c.by = 1 /\ c.jobId = batches[1].jobs[2].id
    /\ state.jobs[1].status \in {"success", "error"}

\* C25 (cooperative cancellation): a batch loop that was running when the
\* user clicked "Detener" starts no further enhanceJewelryImage call.
C25_CancelStopsGeneration ==
    [][\A b \in 1..Len(batches) :
        batches[b].stopped =>
            ~\E c \in inflight' \ inflight : c.by = b]_vars

\* ------------------------------------------------------------------------
\* More properties of generateThematicImages (checked under SpecThematic)
\* ------------------------------------------------------------------------
\* C22 (theme validation precedes the network): for a theme that is empty
\* or only whitespace no request is sent to the provider, and the request
\* to /api/thematic is not answered with 200.
C22_ThemeValidatedFirst ==
    trim(theme) = <<>> =>
        /\ tLog = <<>>
        /\ tInflight = {}
        /\ tResponse.status # 200

RequestsFor(i) == SelectSeq(tLog, LAMBDA x : x.e = "request" /\ x.style = i)

\* C27 (abort on first failure): in the sequential generateThematicImages a
\* failing answer is either retried (a backoff delay, then a request for the
\* same style, at most 3 requests per style), or it is the last thing that
\* happens: no further request is sent, the function throws and
\* /api/thematic answers 500 with none of the images generated so far.
C27_AbortOnFirstFailure ==
    tVariant = "sequential" =>
        /\ \A i \in 1..Len(creativeStyles) : Len(RequestsFor(i)) <= 3
        /\ \A k \in 1..Len(tLog) :
            IsFailure(tLog[k]) =>
                \/ /\ k < Len(tLog)
                   /\ tLog[k + 1].e = "delay"
                   /\ k + 2 <= Len(tLog) =>
                        /\ tLog[k + 2].e = "request"
                        /\ tLog[k + 2].style = tLog[k].style
                \/ /\ k = Len(tLog)
                   /\ tpc = "done"
                   /\ tInflight = {}
                   /\ tOutcome = [kind |-> "threw", images |-> <<>>]
                   /\ tResponse = [status |-> 500, images |-> <<>>]

\* The first two styles gave an image, the call for the third failed for
\* good: the function threw and the two images are lost.
C27_Witness ==
    /\ tVariant = "sequential"
    /\ tpc = "done"
    /\ tResults = <<1, 2>>
    /\ tAnswers[3] \in {"error", "noimage"}
    /\ tOutcome.kind = "threw"
    /\ tResponse = [status |-> 500, images |-> <<>>]

\* The video App: a fetch or a status call of a job the list no longer
\* holds settles and the list stays as it is.
VideoNoResurrection ==
    [][ /\ \A f \in fetches \ fetches' :
            (FetchCompletes /\ f.jobId \notin JobIdsOf(jobs)) => jobs' = jobs
        /\ \A p \in polls \ polls' :
            p.job.id \notin JobIdsOf(jobs) => jobs' = jobs ]_vars

BatchEnds ==
    \A b \in 1..MaxBatches :
        (Len(batches) >= b) ~> (Len(batches) >= b /\ batches[b].pc = "done")

\* A loop for which handleCancelBatch has run starts no call.
StoppedLoopStartsNothing ==
    \A b \in 1..Len(batches) :
        batches[b].stopped => \A c \in inflight' \ inflight : c.by # b

\* C32 (batch flag liveness): when every provider call returns or fails,
\* every loop that dispatched START_BATCH_PROCESS dispatches
\* END_BATCH_PROCESS later, and a loop starts no further job once
\* handleCancelBatch has run while it was running.
C32_BatchFlagLiveness ==
    BatchEnds /\ [][StoppedLoopStartsNothing]_vars

\* C33 (poll transport failure is terminal): when a status call fails, its
\* job gets the error message of the catch branch and its video result and
\* handle are cleared; and after the first failed status call on an
\* operation no further status call is made on it.
C33_PollFailureTerminal ==
    /\ [][ \A p \in polls \ polls' :
             ops'[p.op].errAt # ops[p.op].errAt =>
                \A i \in 1..Len(jobs) :
                    jobs[i].id = p.job.id =>
                        /\ jobs'[i].error = "poll error"
                        /\ jobs'[i].videoResult = NoVideo ]_vars
    /\ [](\A o \in DOMAIN ops :
            ops[o].errAt >= 0 => Len(ops[o].sent) = ops[o].errAt)

\* A step in which handleGenerateMore passes its guard and makes call c
MoreStarts(c) == c \in inflight' \ inflight /\ c.kind = "more"

\* A step in which the call c of handleGenerateMore settles for a job of the
\* list
MoreSettles(c) ==
    c \in inflight \ inflight' /\ c.kind = "more" /\ hasJob(state.jobs, c.jobId)

\* C34 (generate-more appends): handleGenerateMore makes its call only for a
\* job with at least one image, with a prompt that is not blank and no job
\* processing; when the call succeeds the job is in 'success' and its images
\* are the images it had when the call was made, in their order, followed by
\* the image of style 1 and the image of style 2 of the call.
C34_GenerateMoreAppends ==
    [][ /\ \A c \in inflight' :
            MoreStarts(c) =>
                /\ hasJob(state.jobs, c.jobId)
                /\ c.prev = findJob(state.jobs, c.jobId).processedImages
                /\ Len(c.prev) >= 1
                /\ ~isLoading(state.jobs)
                /\ trim(state.backgroundPrompt) # <<>>
        /\ \A c \in inflight :
            MoreSettles(c) =>
                LET after == findJob(state'.jobs, c.jobId)
                IN  \/ /\ after.status = "success"
                       /\ after.processedImages =
                            c.prev \o <<[style |-> 1, call |-> c.n],
                                        [style |-> 2, call |-> c.n]>>
                    \/ /\ after.status = "error"
                       /\ after.error \in ServiceErrors
                       /\ after.processedImages =
                            findJob(state.jobs, c.jobId).processedImages ]_vars

\* A job whose one image was followed by the two images of a later call.
C34_Witness ==
    \E i \in 1..Len(state.jobs) :
        /\ state.jobs[i].status = "success"
        /\ Len(state.jobs[i].processedImages) = 3
        /\ state.jobs[i].processedImages[1].style = 0
        /\ state.jobs[i].processedImages[2].call
              > state.jobs[i].processedImages[1].call

\* The images a job holds when a call of handleGenerateMore settles are kept
\* by the step.
MoreKeepsCurrentImages ==
    [][ \A c \in inflight :
            MoreSettles(c) =>
                LET before == findJob(state.jobs, c.jobId).processedImages
                    after == findJob(state'.jobs, c.jobId).processedImages
                IN  /\ Len(after) >= Len(before)
                    /\ SubSeq(after, 1, Len(before)) = before ]_vars

\* ---- properties of the /api/enhance handler ----
IsPost == gRequest.method = "POST"

\* The environment of the function holds the keys the handler tests
KeyConfigured ==
    gRequest.serverKey /\ (gVariant = "part006" => gRequest.apiKey)

CredentialMatches == gRequest.authorization = <<"Bearer", ServerKey>>

\* The fields the mode of the request needs are there
FieldsPresent ==
    LET b == gRequest.body
    IN  /\ b.present
        /\ \/ b.mode = "catalog" /\ b.base64Image /\ b.mimeType
           \/ /\ b.mode = "thematic" /\ b.base64Image /\ b.mimeType
              /\ b.userTheme = "text"
           \/ /\ b.mode = "video_start" /\ b.base64Image /\ b.mimeType
              /\ b.prompt
           \/ b.mode = "video_check" /\ b.operation

GatePasses == IsPost /\ KeyConfigured /\ CredentialMatches /\ FieldsPresent

\* The status the first failing check of the gate stands for
Refusal ==
    IF ~IsPost THEN 405
    ELSE IF ~KeyConfigured THEN 500
    ELSE IF ~CredentialMatches THEN 401
    ELSE 400

\* The handler calls a service function only for a request that passes the
\* gate, and never answers twice.
GateBeforeProvider ==
    /\ gCalls # <<>> => GatePasses
    /\ Len(gCalls) <= 1
    /\ Len(gResponses) <= 1

\* C35 (request gate): the handler calls a service function only if the
\* method is POST, the server keys are configured, the bearer credential
\* matches and the fields of the mode are present; for every other request it
\* answers exactly once, with 405, 500, 401 or 400 in that precedence, and
\* calls no service function.
C35_RequestGate ==
    /\ gCalls # <<>> => GatePasses
    /\ (gpc # "idle" /\ ~GatePasses) =>
            gResponses = <<Refusal>> /\ gCalls = <<>>

\* C36 (poll result classification): checkVideoOperation answers
\* 'processing' with the refreshed operation exactly for an operation that is
\* not done, 'done' with a video URL exactly for one that is done and has a
\* locator (an error field or not), 'failed' exactly for one that is done
\* with an error and no locator, and 'done_no_uri' exactly for one that is
\* done with neither.
C36_PollClassification ==
    gResult # NoResult =>
        LET u == gResult.operation
            r == gResult.result
        IN  /\ r.status \in {"processing", "done", "failed", "done_no_uri"}
            /\ r.status = "processing" <=> ~u.done
            /\ r.status = "done" <=> (u.done /\ u.uri)
            /\ r.status = "failed" <=> (u.done /\ ~u.uri /\ u.error)
            /\ r.status = "done_no_uri" <=> (u.done /\ ~u.uri /\ ~u.error)
            /\ r.status = "processing" => r.operation = u.handle
            /\ r.status = "done" => r.videoUrl # Null

\* The provider reported the operation done with a locator and an error,
\* and the answer was 'done'.
C36_Witness ==
    /\ gResult.operation.done
    /\ gResult.operation.uri
    /\ gResult.operation.error
    /\ gResult.result.status = "done"
    /\ gResponses = <<200>>

\* The error the last attempt ended with: the error of the provider, or the
\* error the try block throws for a response without image data.
ErrorOfLastAttempt ==
    IF LastOutcome.kind = "error" THEN LastOutcome.msg ELSE NoImageMessage

====
